---- MODULE Spec2Model ----
(***************************************************************************)
(* A state-machine model of the InSAR add-in (Install/InSAR_addin.py,      *)
(* Install/common/utils.py, Install/common/avevel.py).                     *)
(*                                                                         *)
(* The add-in runs in process and single threaded inside ArcMap           *)
(* (Python 2.7): the host calls onRectangle / deactivate of one tool at a  *)
(* time and is blocked until the call returns or an exception leaves it.   *)
(* The state is the map document (layers, their feature selections, the    *)
(* layer selected in the table of contents, the stored raster and the      *)
(* layers added to the data frame), each tool object's field self.sar, and *)
(* the position and locals of the running onRectangle call.                *)
(***************************************************************************)
EXTENDS Integers, Sequences, FiniteSets, TLC

\* Coordinates of scatterers and extent corners range over 0..MaxCoord.
MaxCoord == 2
\* The residual array returned by subres.evaluate has 1..MaxDim rows/columns.
MaxDim == 2
\* At most MaxLayers "subsidence" layers are added to the data frame.
MaxLayers == 1
\* A layer of the selection runs (SelectSpec) has at most MaxScat scatterers.
MaxScat == 3
\* The velocities of the average runs (AverageSpec) range over 0..MaxVel.
MaxVel == 3

None == "None"

\* The two rectangle tools of the add-in.
AverageTool == "AverageDisplacementVelocity"
ResidualTool == "SubsidenceResidual"
ToolIds == {AverageTool, ResidualTool}

\* The feature layers of the map document.
LayerIds == {"L1", "L2"}

-----------------------------------------------------------------------------
(* Data: features of a layer are a sequence indexed by feature id; a       *)
(* feature is a record of its location and, in "VEL", its velocity.        *)

Feature(px, py, v) == [x |-> px, y |-> py, VEL |-> v]

\* Four scatterers, two of them coincident, not all on one line.
DataPlane == << Feature(0, 0, 1), Feature(1, 0, 2), Feature(0, 1, 3), Feature(1, 0, 2) >>
\* Three scatterers on one line.
DataLine == << Feature(0, 0, 1), Feature(1, 1, 2), Feature(2, 2, 3) >>

\* A layer: the names of its attribute fields, its features, its spatial reference.
SqueeSARLayer == [fields |-> {"FID", "Shape", "VEL"}, feats |-> DataPlane, spatref |-> "SR1"]
\* Layers the tools are not made for: one without "VEL", one with all
\* scatterers on a line.
OtherLayers ==
    { [fields |-> {"FID", "Shape", "HEIGHT"}, feats |-> DataPlane, spatref |-> "SR1"],
      [fields |-> {"FID", "Shape", "VEL"}, feats |-> DataLine, spatref |-> "SR1"] }

\* The extents a user can draw: rectangles of positive width and height.
Extents ==
    { [XMin |-> a, YMin |-> b, XMax |-> c, YMax |-> d] :
        a \in 0..MaxCoord, b \in 0..MaxCoord, c \in 0..MaxCoord, d \in 0..MaxCoord }

DrawnExtents == { e \in Extents : e.XMin < e.XMax /\ e.YMin < e.YMax }

Point(px, py) == [x |-> px, y |-> py]
lowerLeft(e) == Point(e.XMin, e.YMin)
lowerRight(e) == Point(e.XMax, e.YMin)
upperRight(e) == Point(e.XMax, e.YMax)
upperLeft(e) == Point(e.XMin, e.YMax)
width(e) == e.XMax - e.XMin
height(e) == e.YMax - e.YMin

-----------------------------------------------------------------------------
VARIABLES
    layers,     \* LayerIds -> layer (fixed during a run)
    toc,        \* the layer selected in the table of contents, or None
    sar,        \* ToolIds -> self.sar of the tool object
    selection,  \* LayerIds -> set of selected feature ids
    stored,     \* TRUE when the raster "subsidence" exists in the geodatabase
    mapLayers,  \* number of "subsidence" layers added to the data frame
    pc,         \* position of the running onRectangle call, "Idle" when none
    tool,       \* the tool whose onRectangle runs (or ran last)
    extent,     \* rectangle_geometry of the running call
    loc,        \* locals of the running call
    calls,      \* calls made to collaborators by the running (or last) call
    escaped,    \* the exception that left the last call, or None
    outcome,    \* how the running (or last) call ended
    prev        \* outcome of the call before

persistent == <<layers, toc, sar, selection, stored, mapLayers>>
vars == <<layers, toc, sar, selection, stored, mapLayers,
          pc, tool, extent, loc, calls, escaped, outcome, prev>>

\* Values of locals that are not bound yet, each of the type of the local.
NoExtent == [XMin |-> 0, YMin |-> 0, XMax |-> 0, YMax |-> 0]
NoCount == -1
NoAverage == [num |-> 0, den |-> 0]
NoArray == [rows |-> 0, cols |-> 0, cells |-> << >>]
NoRaster == [array |-> NoArray, origin |-> Point(0, 0),
             x_cell_size |-> [num |-> 0, den |-> 0],
             y_cell_size |-> [num |-> 0, den |-> 0], spatref |-> None]

NoLocals == [md |-> None, nfeat |-> NoCount, spatref |-> None,
             ave_vel |-> NoAverage, res |-> NoArray, raster |-> NoRaster]

Init ==
    /\ layers \in { [l \in LayerIds |-> IF l = "L1" THEN SqueeSARLayer ELSE o] :
                      o \in OtherLayers }
    /\ toc = None
    /\ sar = [t \in ToolIds |-> None]
    /\ selection = [l \in LayerIds |-> {}]
    /\ stored = FALSE
    /\ mapLayers = 0
    /\ pc = "Idle"
    /\ tool = None
    /\ extent = NoExtent
    /\ loc = NoLocals
    /\ calls = <<>>
    /\ escaped = None
    /\ outcome = "none"
    /\ prev = "none"

-----------------------------------------------------------------------------
(* Collaborator calls are logged as records; a message box carries its     *)
(* title (the severity) and its text.                                      *)

Call(name) == [call |-> name, title |-> "", text |-> "", arg |-> << >>, val |-> << >>]
\* A call together with the strings (arg) or the numbers (val) it returned.
CallRet(name, ret) == [call |-> name, title |-> "", text |-> "", arg |-> ret, val |-> << >>]
CallVal(name, ret) == [call |-> name, title |-> "", text |-> "", arg |-> << >>, val |-> ret]
MessageBox(text, title) ==
    [call |-> "MessageBox", title |-> title, text |-> text, arg |-> << >>, val |-> << >>]

MsgSelectLayer == MessageBox("Select the SqueeSAR layer from the table of content", "Warning")
MsgNoFeatures == MessageBox("No features were available within the selection boundaries", "Warning")
MsgAtLeast3 == MessageBox("At least 3 features required within the selection boundaries", "Warning")
MsgNoVEL == MessageBox("Couldn't find the field 'VEL' in the data.", "Error")
\* The result box of the average tool: the count and the average it shows.
MsgAverage(nfeat, ave_vel) ==
    [call |-> "MessageBox", title |-> "Info",
     text |-> "{0} feature(s) selected within: ... Average velocity: {:.2f} mm/year",
     arg |-> << >>, val |-> << nfeat, ave_vel.num, ave_vel.den >>]

(* Exceptions are instances of classes; only their class and message matter. *)
Exception(cls, msg) == [class |-> cls, message |-> msg]
NoException == [class |-> None, message |-> ""]
\* The raise statement, as it is logged.
Raise(exc) ==
    [call |-> "raise", title |-> "", text |-> exc.message, arg |-> << exc.class >>, val |-> << >>]

\* The base classes of each exception class (itself included).
Bases(cls) ==
    CASE cls = "UserWarning" -> {"UserWarning", "Warning", "Exception", "BaseException"}
      [] cls = "ValueError" -> {"ValueError", "StandardError", "Exception", "BaseException"}
      [] OTHER -> {cls, "Exception", "BaseException"}

\* What stands after the keyword except: a class, or (here) a str object.
ExceptClass(cls) == [kind |-> "class", value |-> cls]
ExceptString(str) == [kind |-> "str", value |-> str]

\* Python 2.7 matches a raised instance against the except expression by
\* class: a str object is not a class of the instance, so it matches nothing.
Catches(handler, exc) ==
    handler.kind = "class" /\ handler.value \in Bases(exc.class)

-----------------------------------------------------------------------------
(* Strings of decimal digits, as GetCount_management(...).getOutput(0)     *)
(* returns them, and their conversion by int(float(...)).                  *)

Digits == << "0", "1", "2", "3", "4", "5", "6", "7", "8", "9" >>

RECURSIVE IntToStr(_)
IntToStr(n) ==
    IF n < 10 THEN << Digits[n + 1] >>
    ELSE IntToStr(n \div 10) \o << Digits[(n % 10) + 1] >>

DigitValue(d) == (CHOOSE i \in 1..10 : Digits[i] = d) - 1

RECURSIVE StrToInt(_)
StrToInt(s) ==
    IF Len(s) = 0 THEN 0
    ELSE 10 * StrToInt(SubSeq(s, 1, Len(s) - 1)) + DigitValue(s[Len(s)])

-----------------------------------------------------------------------------
(* common.utils                                                            *)

\* Mutant: the failed check is not reported before it raises.
verifySqueeSAR_Silent ==
    LET layer == toc
        asked == << CallRet("GetSelectedTOCLayerOrDataFrame", << layer >>) >>
        exc == Exception("UserWarning", "Invalid layer!")
    IN  IF layer = None
        THEN [raised |-> exc, ret |-> None, calls |-> asked \o << Raise(exc) >>]
        ELSE [raised |-> NoException,
              ret |-> [layer |-> layer, md |-> "CURRENT"], calls |-> asked]

\* Mutant: with no layer selected, the layer a tool remembers from an
\* earlier call is used instead.
verifySqueeSAR_Remembered ==
    LET kept == { sar[t] : t \in DOMAIN sar } \ {None}
        layer == IF toc = None /\ kept # {} THEN CHOOSE l \in kept : TRUE ELSE toc
        asked == << CallRet("GetSelectedTOCLayerOrDataFrame", << layer >>) >>
        exc == Exception("UserWarning", "Invalid layer!")
    IN  IF layer = None
        THEN [raised |-> exc, ret |-> None,
              calls |-> asked \o << MsgSelectLayer, Raise(exc) >>]
        ELSE [raised |-> NoException,
              ret |-> [layer |-> layer, md |-> "CURRENT"], calls |-> asked]

\* verifySqueeSAR(): the layer selected in the table of contents.
verifySqueeSAR ==
    LET layer == toc
        asked == << CallRet("GetSelectedTOCLayerOrDataFrame", << layer >>) >>
        exc == Exception("UserWarning", "Invalid layer!")
    IN  IF layer = None
        THEN [raised |-> exc, ret |-> None,
              calls |-> asked \o << MsgSelectLayer, Raise(exc) >>]
        ELSE [raised |-> NoException,
              ret |-> [layer |-> layer, md |-> "CURRENT"], calls |-> asked]

\* Mutant: the two upper corners are added in the other order.
ExtentRing_Crossed(e) ==
    << lowerLeft(e), lowerRight(e), upperLeft(e), upperRight(e), lowerLeft(e) >>

\* The closed ring built from the four corners of the extent.
ExtentRing(e) ==
    << lowerLeft(e), lowerRight(e), upperRight(e), upperLeft(e), lowerLeft(e) >>

Polygon(ring, spatref) == [ring |-> ring, spatref |-> spatref]

\* poly = ap.Polygon(area, spatref): the corner points of the extent as they
\* are, with the spatial reference of the layer set on the polygon.
QueryPolygon(e, layer) == Polygon(ExtentRing(e), layers[layer].spatref)

MinOf(S) == CHOOSE m \in S : \A n \in S : m <= n
MaxOf(S) == CHOOSE m \in S : \A n \in S : m >= n
RingXs(ring) == { ring[i].x : i \in DOMAIN ring }
RingYs(ring) == { ring[i].y : i \in DOMAIN ring }

\* Mutant: points on the boundary of the polygon are left out.
Within_Interior(f, poly) ==
    /\ MinOf(RingXs(poly.ring)) < f.x /\ f.x < MaxOf(RingXs(poly.ring))
    /\ MinOf(RingYs(poly.ring)) < f.y /\ f.y < MaxOf(RingYs(poly.ring))

\* "WITHIN": a point is selected when it lies in the polygon or on its
\* boundary (the polygon is a rectangle with sides parallel to the axes).
Within(f, poly) ==
    /\ MinOf(RingXs(poly.ring)) <= f.x /\ f.x <= MaxOf(RingXs(poly.ring))
    /\ MinOf(RingYs(poly.ring)) <= f.y /\ f.y <= MaxOf(RingYs(poly.ring))

\* SelectLayerByLocation_management(layer, "WITHIN", poly, 0.0, "NEW_SELECTION")
SelectLayerByLocation(layer, poly) ==
    { fid \in DOMAIN layers[layer].feats : Within(layers[layer].feats[fid], poly) }

\* GetCount_management(layer).getOutput(0) of a layer with selection sel.
GetCount(sel) == IntToStr(Cardinality(sel))

\* Mutant: if nfeat == 0, which no str satisfies.
NoFeatures_AsInt(nfeat) == nfeat \in {}

\* if nfeat == "0"
NoFeatures(nfeat) == nfeat = << "0" >>

\* Mutant: the matching features are added to the selection in place.
SelectionType_Add(current, matched) == current \cup matched

\* selection_type "NEW_SELECTION": the matching features replace whatever
\* selection the layer had.
SelectionType(current, matched) == matched

\* selectSqueeSARData(extent, layer) on a layer whose selection is current:
\* the new selection of the layer and either the pair (nfeat, spatref) or
\* the exception raised.
selectSqueeSARDataOn(e, layer, current) ==
    LET spatref == layers[layer].spatref
        poly == QueryPolygon(e, layer)
        sel == SelectionType(current, SelectLayerByLocation(layer, poly))
        nfeat == GetCount(sel)
        done == << Call("SelectLayerByLocation"), CallRet("GetCount", nfeat) >>
        exc == Exception("UserWarning", "No features!")
    IN  IF NoFeatures(nfeat)
        THEN [sel |-> sel, raised |-> exc,
              ret |-> None, calls |-> done \o << MsgNoFeatures, Raise(exc) >>]
        ELSE [sel |-> sel, raised |-> NoException,
              ret |-> [nfeat |-> StrToInt(nfeat), spatref |-> spatref],
              calls |-> done]

selectSqueeSARData(e, layer) == selectSqueeSARDataOn(e, layer, selection[layer])

-----------------------------------------------------------------------------
(* common.avevel                                                           *)

\* The ids of the selected features in increasing order.
RECURSIVE SortedIds(_)
SortedIds(S) ==
    IF S = {} THEN << >>
    ELSE LET m == MinOf(S) IN << m >> \o SortedIds(S \ {m})

\* Mutant: the rows of every feature of the layer, selected or not.
FeatureClassToNumPyArray_All(layer) == layers[layer].feats

\* FeatureClassToNumPyArray(layer, fld_names): the selected rows.
FeatureClassToNumPyArray(layer) ==
    LET ids == SortedIds(selection[layer])
    IN  [i \in DOMAIN ids |-> layers[layer].feats[ids[i]]]

RECURSIVE SeqSum(_)
SeqSum(s) == IF Len(s) = 0 THEN 0 ELSE s[1] + SeqSum(Tail(s))

\* Mutant: the middle of the least and the greatest value.
Average_Midrange(values) ==
    LET vs == { values[i] : i \in DOMAIN values }
    IN  [num |-> MinOf(vs) + MaxOf(vs), den |-> 2]

\* np.average: the sum over the number of values, kept as a fraction.
Average(values) == [num |-> SeqSum(values), den |-> Len(values)]

\* Mutant: a missing "VEL" is taken as a velocity of zero.
avevel_evaluate_DefaultZero(layer) ==
    LET fld_names == layers[layer].fields
        sel_data == FeatureClassToNumPyArray(layer)
        warn == IF "VEL" \notin fld_names THEN << MsgNoVEL >> ELSE << >>
        read == << Call("ListFields"),
                   CallVal("FeatureClassToNumPyArray", << Len(sel_data) >>) >>
    IN  [raised |-> NoException,
         ret |-> Average([i \in DOMAIN sel_data |->
                            IF "VEL" \in fld_names THEN sel_data[i].VEL ELSE 0]),
         calls |-> read \o warn \o << Call("np.average") >>]

\* evaluate(layer): the message box shown when "VEL" is no field does not
\* stop the function; indexing the array by the missing field raises.
avevel_evaluate(layer) ==
    LET fld_names == layers[layer].fields
        sel_data == FeatureClassToNumPyArray(layer)
        warn == IF "VEL" \notin fld_names THEN << MsgNoVEL >> ELSE << >>
        read == << Call("ListFields"),
                   CallVal("FeatureClassToNumPyArray", << Len(sel_data) >>) >>
        exc == Exception("ValueError", "field named VEL not found")
    IN  IF "VEL" \in fld_names
        THEN [raised |-> NoException,
              ret |-> Average([i \in DOMAIN sel_data |-> sel_data[i].VEL]),
              calls |-> read \o warn \o << Call("np.average") >>]
        ELSE [raised |-> exc, ret |-> None, calls |-> read \o warn \o << Raise(exc) >>]

-----------------------------------------------------------------------------
(* common.subres (not among the sources: modelled from the design)         *)

Collinear(rows) ==
    \A i, j, k \in DOMAIN rows :
        (rows[j].x - rows[i].x) * (rows[k].y - rows[i].y)
            = (rows[k].x - rows[i].x) * (rows[j].y - rows[i].y)

GridShapes == { [rows |-> r, cols |-> c] : r \in 1..MaxDim, c \in 1..MaxDim }

\* The determinant of a 3 by 3 matrix.
Det3(m) ==
      m[1][1] * (m[2][2] * m[3][3] - m[2][3] * m[3][2])
    - m[1][2] * (m[2][1] * m[3][3] - m[2][3] * m[3][1])
    + m[1][3] * (m[2][1] * m[3][2] - m[2][2] * m[3][1])

\* Step 1, the trend: the plane v = a x + b y + c of least squares through
\* the scatterers, from the normal equations by Cramer's rule.  The result
\* is << D, D a, D b, D c >> with D the determinant of the normal matrix.
TrendPlane(rows) ==
    LET S(f(_)) == SeqSum([i \in DOMAIN rows |-> f(rows[i])])
        xx(p) == p.x * p.x
        xy(p) == p.x * p.y
        yy(p) == p.y * p.y
        xv(p) == p.x * p.VEL
        yv(p) == p.y * p.VEL
        x1(p) == p.x
        y1(p) == p.y
        v1(p) == p.VEL
        one(p) == 1
        m == << << S(xx), S(xy), S(x1) >>,
                << S(xy), S(yy), S(y1) >>,
                << S(x1), S(y1), S(one) >> >>
        r == << S(xv), S(yv), S(v1) >>
        col(k) == [i \in 1..3 |-> [j \in 1..3 |-> IF j = k THEN r[i] ELSE m[i][j]]]
    IN  << Det3(m), Det3(col(1)), Det3(col(2)), Det3(col(3)) >>

\* Mutant: the trend is the mean velocity, a level surface.
TrendResidual_Level(rows, i) ==
    [num |-> Len(rows) * rows[i].VEL
               - SeqSum([k \in DOMAIN rows |-> rows[k].VEL]),
     den |-> Len(rows)]

\* Step 2, the residual of scatterer i: its velocity less the trend there.
TrendResidual(rows, i) ==
    LET t == TrendPlane(rows)
    IN  [num |-> t[1] * rows[i].VEL
                   - (t[2] * rows[i].x + t[3] * rows[i].y + t[4]),
         den |-> t[1]]

\* Step 3, the value of cell (r, c) of a grid of the given shape over the
\* extent: the average of the residuals, each weighted by a weight that is
\* positive and falls with the distance of the scatterer from the centre
\* of the cell.  Lengths are in units of 1/(2 rows cols) to stay integral.
CellValue(e, shape, rows, r, c) ==
    LET unit == 2 * shape.rows * shape.cols
        cx == unit * e.XMin + (2 * c - 1) * width(e) * shape.rows
        cy == unit * e.YMin + (2 * r - 1) * height(e) * shape.cols
        far == 2 * (unit * MaxCoord) * (unit * MaxCoord)
        dist2(p) == (cx - unit * p.x) * (cx - unit * p.x)
                      + (cy - unit * p.y) * (cy - unit * p.y)
        weight(p) == 1 + (far \div (1 + dist2(p)))
        res(i) == TrendResidual(rows, i)
    IN  [num |-> SeqSum([i \in DOMAIN rows |-> weight(rows[i]) * res(i).num]),
         den |-> res(1).den * SeqSum([i \in DOMAIN rows |-> weight(rows[i])])]

\* The dense grid, row by row.
Grid(e, shape, rows) ==
    [rows |-> shape.rows, cols |-> shape.cols,
     cells |-> [k \in 1..(shape.rows * shape.cols) |->
                  CellValue(e, shape, rows,
                            ((k - 1) \div shape.cols) + 1,
                            ((k - 1) % shape.cols) + 1)]]

\* evaluate(extent, layer): the possible results, a residual array of some
\* shape, or the failure of the fit.
subres_evaluate(e, layer) ==
    LET sel_data == FeatureClassToNumPyArray(layer)
    IN  IF "VEL" \notin layers[layer].fields
        THEN { [raised |-> Exception("MissingFieldError", "VEL"), ret |-> None] }
        ELSE IF Collinear(sel_data)
        THEN { [raised |-> Exception("DegenerateFitError", "rank"), ret |-> None] }
        ELSE { [raised |-> NoException, ret |-> Grid(e, g, sel_data)] :
                 g \in GridShapes }

-----------------------------------------------------------------------------
(* The host and the two tools.  A call of onRectangle is a sequence of     *)
(* steps; the host does nothing else until the call has ended.             *)

\* The least number of scatterers the residual tool accepts.
MinScatterers == 3

\* Mutant: if nfeat < 2
TooFew_OffByOne(nfeat) == nfeat < MinScatterers - 1

\* Mutant: the check of the count is left out.
TooFew_Never(nfeat) == nfeat < 0

\* if nfeat < 3
TooFew(nfeat) == nfeat < MinScatterers

\* The call ends: by return (exc = NoException), or by exc leaving it.
Finish(newcalls, exc, how) ==
    /\ pc' = "Idle"
    /\ loc' = NoLocals
    /\ extent' = NoExtent
    /\ calls' = newcalls
    /\ escaped' = exc.class
    /\ outcome' = how
    /\ UNCHANGED <<layers, toc, stored, mapLayers, tool, prev>>

\* Mutant: the handler reports the exception it caught or let pass.
TryExceptReturn_Report(handler, exc, newcalls, how) ==
    Finish(newcalls \o << MessageBox(exc.message, "Error") >>,
           IF Catches(handler, exc) THEN NoException ELSE exc, how)

\* try: ... except handler: return
TryExceptReturn(handler, exc, newcalls, how) ==
    Finish(newcalls, IF Catches(handler, exc) THEN NoException ELSE exc, how)

\* The user selects a layer, or nothing, in the table of contents.
SelectTOC(l) ==
    /\ pc = "Idle"
    /\ l # toc
    /\ toc' = l
    /\ UNCHANGED <<layers, sar, selection, stored, mapLayers,
                   pc, tool, extent, loc, calls, escaped, outcome, prev>>

\* Mutant: the selection of the layer selected in the table of contents is
\* cleared, whatever layer the tool remembers.
deactivate_Selected(t) ==
    /\ pc = "Idle"
    /\ IF toc # None
       THEN selection' = [selection EXCEPT ![toc] = {}]
       ELSE UNCHANGED selection
    /\ UNCHANGED <<layers, toc, sar, stored, mapLayers,
                   pc, tool, extent, loc, calls, escaped, outcome, prev>>

\* deactivate(self) of either tool.
deactivate(t) ==
    /\ pc = "Idle"
    /\ IF sar[t] # None
       THEN selection' = [selection EXCEPT ![sar[t]] = {}]
       ELSE UNCHANGED selection
    /\ UNCHANGED <<layers, toc, sar, stored, mapLayers,
                   pc, tool, extent, loc, calls, escaped, outcome, prev>>

\* The host calls onRectangle(self, rectangle_geometry) of tool t.
onRectangle(t, e) ==
    /\ pc = "Idle"
    /\ t = ResidualTool => mapLayers < MaxLayers
    /\ pc' = "verify"
    /\ tool' = t
    /\ extent' = e
    /\ loc' = NoLocals
    /\ calls' = << >>
    /\ escaped' = None
    /\ prev' = outcome
    /\ outcome' = "running"
    /\ UNCHANGED persistent

\* try: self.sar, md = utils.verifySqueeSAR()  except "Invalid layer!": return
VerifyStep(t) ==
    /\ pc = "verify" /\ tool = t
    /\ LET r == verifySqueeSAR
       IN  IF r.raised # NoException
           THEN /\ TryExceptReturn(ExceptString("Invalid layer!"), r.raised,
                                   calls \o r.calls, "NoLayer")
                /\ UNCHANGED <<sar, selection>>
           ELSE /\ sar' = [sar EXCEPT ![t] = r.ret.layer]
                /\ loc' = [loc EXCEPT !.md = r.ret.md]
                /\ calls' = calls \o r.calls
                /\ pc' = "select"
                /\ UNCHANGED <<layers, toc, selection, stored, mapLayers,
                               tool, extent, escaped, outcome, prev>>

\* try: nfeat, spatref = utils.selectSqueeSARData(...)  except "No features!": return
SelectStep(t) ==
    /\ pc = "select" /\ tool = t
    /\ LET r == selectSqueeSARData(extent, sar[t])
       IN  /\ selection' = [selection EXCEPT ![sar[t]] = r.sel]
           /\ IF r.raised # NoException
              THEN /\ TryExceptReturn(ExceptString("No features!"), r.raised,
                                      calls \o r.calls, "Empty")
                   /\ UNCHANGED sar
              ELSE /\ loc' = [loc EXCEPT !.nfeat = r.ret.nfeat,
                                         !.spatref = r.ret.spatref]
                   /\ calls' = calls \o r.calls
                   /\ pc' = IF t = ResidualTool THEN "check" ELSE "evaluate"
                   /\ UNCHANGED <<layers, toc, sar, stored, mapLayers,
                                  tool, extent, escaped, outcome, prev>>

\* ap.SelectLayerByAttribute_management(self.sar, "CLEAR_SELECTION"), the
\* last statement of onRectangle.
ClearStep(t) ==
    /\ pc = "clear" /\ tool = t
    /\ selection' = [selection EXCEPT ![sar[t]] = {}]
    /\ Finish(calls \o << Call("CLEAR_SELECTION") >>, NoException, "ok")
    /\ UNCHANGED sar

(* AverageDisplacementVelocity.onRectangle *)

AverageVerify == VerifyStep(AverageTool)

AverageSelect == SelectStep(AverageTool)

\* Mutant: a failure of the estimator is swallowed and the call goes on.
AverageEvaluate_Swallow ==
    /\ pc = "evaluate" /\ tool = AverageTool
    /\ LET r == avevel_evaluate(sar[AverageTool])
           done == calls \o << Call("avevel.evaluate") >> \o r.calls
       IN  /\ loc' = [loc EXCEPT !.ave_vel = IF r.raised # NoException
                                             THEN [num |-> 0, den |-> 1]
                                             ELSE r.ret]
           /\ calls' = done
           /\ pc' = "report"
           /\ UNCHANGED <<layers, toc, sar, selection, stored, mapLayers,
                          tool, extent, escaped, outcome, prev>>

\* ave_vel = avevel.evaluate(self.sar): no handler around it.
AverageEvaluate ==
    /\ pc = "evaluate" /\ tool = AverageTool
    /\ LET r == avevel_evaluate(sar[AverageTool])
           done == calls \o << Call("avevel.evaluate") >> \o r.calls
       IN  IF r.raised # NoException
           THEN /\ Finish(done, r.raised, "EstFail")
                /\ UNCHANGED <<sar, selection>>
           ELSE /\ loc' = [loc EXCEPT !.ave_vel = r.ret]
                /\ calls' = done
                /\ pc' = "report"
                /\ UNCHANGED <<layers, toc, sar, selection, stored, mapLayers,
                               tool, extent, escaped, outcome, prev>>

\* The message box with the count and the average.
AverageReport ==
    /\ pc = "report" /\ tool = AverageTool
    /\ calls' = calls \o << MsgAverage(loc.nfeat, loc.ave_vel) >>
    /\ pc' = "clear"
    /\ UNCHANGED <<layers, toc, sar, selection, stored, mapLayers,
                   tool, extent, loc, escaped, outcome, prev>>

AverageClear == ClearStep(AverageTool)

(* SubsidenceResidual.onRectangle *)

ResidualVerify == VerifyStep(ResidualTool)

ResidualSelect == SelectStep(ResidualTool)

\* if nfeat < 3: MessageBox(...); return
ResidualCheck ==
    /\ pc = "check" /\ tool = ResidualTool
    /\ IF TooFew(loc.nfeat)
       THEN Finish(calls \o << MsgAtLeast3 >>, NoException, "TooFew")
       ELSE /\ pc' = "evaluate"
            /\ UNCHANGED <<layers, toc, stored, mapLayers, tool, extent, loc,
                           calls, escaped, outcome, prev>>
    /\ UNCHANGED <<sar, selection>>

\* res = subres.evaluate(extent, self.sar): no handler around it.
ResidualEvaluate ==
    /\ pc = "evaluate" /\ tool = ResidualTool
    /\ \E r \in subres_evaluate(extent, sar[ResidualTool]) :
         LET done == calls \o << Call("subres.evaluate") >>
         IN  IF r.raised # NoException
             THEN Finish(done \o << Raise(r.raised) >>, r.raised, "EstFail")
             ELSE /\ loc' = [loc EXCEPT !.res = r.ret]
                  /\ calls' = done
                  /\ pc' = "raster"
                  /\ UNCHANGED <<layers, toc, stored, mapLayers,
                                 tool, extent, escaped, outcome, prev>>
    /\ UNCHANGED <<sar, selection>>

\* The cell sizes, the raster saved as "subsidence", the layer added on top.
ResidualRaster ==
    /\ pc = "raster" /\ tool = ResidualTool
    /\ LET x_len == loc.res.rows
           y_len == loc.res.cols
           x_cell_size == [num |-> width(extent), den |-> x_len]
           y_cell_size == [num |-> height(extent), den |-> y_len]
       IN  loc' = [loc EXCEPT !.raster =
                      [array |-> loc.res, origin |-> lowerLeft(extent),
                       x_cell_size |-> x_cell_size, y_cell_size |-> y_cell_size,
                       spatref |-> loc.spatref]]
    /\ stored' = TRUE
    /\ mapLayers' = mapLayers + 1
    /\ calls' = calls \o << Call("NumPyArrayToRaster"), Call("raster.save"),
                            Call("AddLayer") >>
    /\ pc' = "clear"
    /\ UNCHANGED <<layers, toc, sar, selection, tool, extent, escaped, outcome, prev>>

ResidualClear == ClearStep(ResidualTool)

Next ==
    \/ \E l \in LayerIds \cup {None} : SelectTOC(l)
    \/ \E t \in ToolIds : deactivate(t)
    \/ \E t \in ToolIds, e \in DrawnExtents : onRectangle(t, e)
    \/ AverageVerify
    \/ AverageSelect
    \/ AverageEvaluate
    \/ AverageReport
    \/ AverageClear
    \/ ResidualVerify
    \/ ResidualSelect
    \/ ResidualCheck
    \/ ResidualEvaluate
    \/ ResidualRaster
    \/ ResidualClear

Spec == Init /\ [][Next]_vars

\* The call runs to its end: the add-in is single threaded and synchronous,
\* and every step of onRectangle is a terminating statement.
Running ==
    \/ AverageVerify \/ AverageSelect \/ AverageEvaluate \/ AverageReport
    \/ AverageClear \/ ResidualVerify \/ ResidualSelect \/ ResidualCheck
    \/ ResidualEvaluate \/ ResidualRaster \/ ResidualClear

FairSpec == Init /\ [][Next]_vars /\ WF_vars(Running)

-----------------------------------------------------------------------------
(* What the log of the running (or last) call says.                        *)

Has(name) == \E i \in DOMAIN calls : calls[i].call = name
IsBox(c) == c.call = "MessageBox"
Boxes == SelectSeq(calls, IsBox)
InfoShown == \E i \in DOMAIN calls : IsBox(calls[i]) /\ calls[i].title = "Info"
Estimators == {"avevel.evaluate", "subres.evaluate"}
EstimatorInvoked == \E i \in DOMAIN calls : calls[i].call \in Estimators
RasterProduced == Has("NumPyArrayToRaster") \/ Has("raster.save") \/ Has("AddLayer")

\* The count GetCount returned to the call, or -1 before the selection.
Counted == Has("GetCount")
CountReturned ==
    IF Counted
    THEN StrToInt(calls[CHOOSE i \in DOMAIN calls : calls[i].call = "GetCount"].arg)
    ELSE -1

\* The call has ended and control is back in the host.
Returned == pc = "Idle" /\ outcome # "none"

-----------------------------------------------------------------------------
(* C1: every call of onRectangle that ran the spatial selection ends with  *)
(* the selection of the layer cleared: when control is back in the host    *)
(* after such a call, no feature of that layer is selected.                *)
C1_SelectionClearedAtEnd ==
    (Returned /\ Has("SelectLayerByLocation")) => selection[sar[tool]] = {}

(* C2: no exception leaves onRectangle: whenever a call has ended, it has  *)
(* ended by returning to the host.                                         *)
C2_NoExceptionEscapes ==
    Returned => escaped = None

(* C3: when the region matches no scatterer the call stops there: the      *)
(* empty-selection error is raised and reported in one warning box, no     *)
(* estimator is invoked, no result box is shown and no raster is made,     *)
(* saved or added to the map.                                              *)
C3_EmptySelectionStops ==
    (Counted /\ CountReturned = 0) =>
        /\ pc = "Idle"
        /\ outcome = "Empty"
        /\ Boxes = << MsgNoFeatures >>
        /\ calls[Len(calls)] = Raise(Exception("UserWarning", "No features!"))
        /\ ~EstimatorInvoked
        /\ ~InfoShown
        /\ ~RasterProduced
        /\ loc = NoLocals

C3_Witness ==
    /\ Returned /\ Counted /\ CountReturned = 0
    /\ tool = ResidualTool

(* C4: with no layer selected in the table of contents the layer check     *)
(* fails: the call ends at once with the no-layer warning as its only box  *)
(* and with neither the selection run nor an estimator invoked; it leaves  *)
(* the selections, the tools and the map as they were, so that the next    *)
(* call starts from the state this one started from.                       *)
C4_NoLayerStops ==
    [][ (pc = "verify" /\ toc = None) =>
          /\ pc' = "Idle"
          /\ outcome' = "NoLayer"
          /\ Boxes' = << MsgSelectLayer >>
          /\ ~Has("SelectLayerByLocation")'
          /\ ~EstimatorInvoked'
          /\ UNCHANGED <<layers, toc, sar, selection, stored, mapLayers>> ]_vars

\* A call that ran to its end after the call before it failed for want of a layer.
C4_Witness ==
    prev = "NoLayer" /\ outcome = "ok" /\ pc = "Idle"

(* C5: the residual tool stops on a selection of 1 or 2 scatterers: it     *)
(* shows the at-least-3 warning and returns, and neither invokes the       *)
(* residual estimator nor makes a raster; the average tool has no such     *)
(* minimum and invokes its estimator for every count of 1 or more.         *)
C5_MinimumOnResidualOnly ==
    /\ (tool = ResidualTool /\ CountReturned \in 1..2) =>
          /\ pc \in {"check", "Idle"}
          /\ ~EstimatorInvoked
          /\ ~RasterProduced
          /\ pc = "Idle" => /\ outcome = "TooFew"
                            /\ Boxes = << MsgAtLeast3 >>
                            /\ escaped = None
    /\ (tool = AverageTool /\ CountReturned >= 1 /\ pc # "evaluate") =>
          Has("avevel.evaluate")

C5_Witness ==
    /\ tool = ResidualTool /\ CountReturned = 2 /\ Returned

(* C6: on a layer without the field "VEL" the average estimator does not   *)
(* go on to a result: the missing field is reported in an error box, the   *)
(* mean is not computed, an exception ends the call and no average is      *)
(* returned or shown.                                                      *)
MissingVelocity ==
    /\ tool = AverageTool
    /\ Has("avevel.evaluate")
    /\ "VEL" \notin layers[sar[tool]].fields

\* C6: a missing "VEL" ends the average call with the error box and an
\* exception, without a mean computed, returned or shown.
C6_MissingFieldSignalled ==
    MissingVelocity =>
        /\ pc = "Idle"
        /\ Boxes = << MsgNoVEL >>
        /\ calls[Len(calls)].call = "raise"
        /\ escaped # None
        /\ ~Has("np.average")
        /\ ~InfoShown
        /\ loc.ave_vel = NoAverage

C6_Witness ==
    MissingVelocity /\ Returned /\ CountReturned >= 1

(* C7: every failed call (no layer, empty selection, fewer than 3          *)
(* scatterers on the residual path, missing velocity field on the average  *)
(* path) has shown exactly one message box when control is back in the     *)
(* host.                                                                   *)
Failed ==
    \/ outcome \in {"NoLayer", "Empty", "TooFew"}
    \/ outcome = "EstFail" /\ tool = AverageTool

\* C7: a failed call has shown exactly one message box at its end.
C7_OneNotificationPerFailure ==
    (Returned /\ Failed) => Len(Boxes) = 1

C7_Witness ==
    Returned /\ outcome = "Empty" /\ Len(Boxes) = 1 /\ tool = AverageTool

(* C8: a call goes through the phases Idle, LayerChecked, Selected,        *)
(* Evaluated and back to Idle in this order, leaving early to Idle only:   *)
(* the selection is run only after the layer check of the same call found  *)
(* a layer, an estimator is invoked only after the selection of the same   *)
(* call counted at least 1 scatterer (3 for the residual estimator), and   *)
(* every call comes back to Idle: while a call runs a step of it is        *)
(* enabled, and each step brings the call nearer to its end.               *)
Phase(p) ==
    CASE p = "Idle" -> "Idle"
      [] p = "verify" -> "Entered"
      [] p = "select" -> "LayerChecked"
      [] p \in {"check", "evaluate"} -> "Selected"
      [] p \in {"report", "raster", "clear"} -> "Evaluated"

PhaseSteps ==
    { << "Idle", "Entered" >>, << "Entered", "LayerChecked" >>,
      << "LayerChecked", "Selected" >>, << "Selected", "Selected" >>,
      << "Selected", "Evaluated" >>, << "Evaluated", "Evaluated" >>,
      << "Entered", "Idle" >>, << "LayerChecked", "Idle" >>,
      << "Selected", "Idle" >>, << "Evaluated", "Idle" >>, << "Idle", "Idle" >> }

CallOrder ==
    /\ \A j \in DOMAIN calls :
          calls[j].call = "SelectLayerByLocation" =>
             \E i \in 1..(j - 1) :
                /\ calls[i].call = "GetSelectedTOCLayerOrDataFrame"
                /\ calls[i].arg # << None >>
    /\ \A k \in DOMAIN calls :
          calls[k].call \in Estimators =>
             \E i \in 1..(k - 1) :
                /\ calls[i].call = "GetCount"
                /\ StrToInt(calls[i].arg) >=
                      (IF calls[k].call = "subres.evaluate" THEN 3 ELSE 1)
    /\ Phase(pc) = "Evaluated" => EstimatorInvoked /\ ~Has("raise")
    /\ Phase(pc) = "Selected" => CountReturned >= 1
    /\ Phase(pc) = "LayerChecked" => sar[tool] # None /\ ~Counted

PhaseStep == (<< Phase(pc), Phase(pc') >>) \in PhaseSteps

\* The number of steps a call at p has before it at most.
StepsLeft(p) ==
    CASE p = "Idle" -> 0
      [] p = "clear" -> 1
      [] p \in {"report", "raster"} -> 2
      [] p = "evaluate" -> 3
      [] p = "check" -> 4
      [] p = "select" -> 5
      [] p = "verify" -> 6

Progress == pc # "Idle" => StepsLeft(pc') < StepsLeft(pc)

\* A step of the running call can be taken: the guards of the steps of
\* Running, written out (every statement of onRectangle has a next one).
CanStep ==
    \/ pc \in {"verify", "select", "clear"} /\ tool \in ToolIds
    \/ pc = "evaluate" /\ tool = AverageTool
    \/ pc = "evaluate" /\ tool = ResidualTool
           /\ subres_evaluate(extent, sar[tool]) # {}
    \/ pc \in {"check", "raster"} /\ tool = ResidualTool
    \/ pc = "report" /\ tool = AverageTool

\* C8: the calls of a call are in order, its steps follow the phases, and
\* it comes back to Idle (a step is enabled, every step lowers StepsLeft).
C8_PhaseOrder ==
    /\ []CallOrder
    /\ [][PhaseStep]_vars
    /\ [](pc # "Idle" => CanStep)
    /\ [][Progress]_vars

C8_Witness ==
    /\ Returned /\ outcome = "ok" /\ tool = ResidualTool
    /\ Has("subres.evaluate") /\ Has("CLEAR_SELECTION")

(* C9: a failure of an estimator ends the call without partial output: the *)
(* exception is the last event of the call and leaves it, no result box is *)
(* shown, no raster is made, saved or added to the map; a raster or a      *)
(* result box is produced only by a call whose estimator returned.         *)
EstimatorFailed ==
    \E i, j \in DOMAIN calls :
        i < j /\ calls[i].call \in Estimators /\ calls[j].call = "raise"

\* C9: a failed estimator ends the call with no result box and no raster;
\* these come only from a call whose estimator returned.
C9_NoPartialOutput ==
    /\ [](EstimatorFailed =>
            /\ pc = "Idle"
            /\ calls[Len(calls)].call = "raise"
            /\ escaped # None
            /\ ~InfoShown
            /\ ~RasterProduced)
    /\ []((RasterProduced \/ InfoShown) => (EstimatorInvoked /\ ~Has("raise")))
    /\ [][ (EstimatorFailed' /\ ~EstimatorFailed) =>
              UNCHANGED <<stored, mapLayers>> ]_vars

C9_Witness ==
    EstimatorFailed /\ Returned /\ tool = ResidualTool

-----------------------------------------------------------------------------
(* The selection alone, over every layer of at most MaxScat scatterers:    *)
(* the average tool is run on layer L1 up to the end of its selection.     *)

Positions == { Point(a, b) : a \in 0..MaxCoord, b \in 0..MaxCoord }
PosIndex(p) == p.x * (MaxCoord + 1) + p.y

\* The layers differing by more than the order of their features.
ScattererSets ==
    { d \in UNION { [1..n -> Positions] : n \in 0..MaxScat } :
        \A i \in 1..(Len(d) - 1) : PosIndex(d[i]) <= PosIndex(d[i + 1]) }

SelectInit ==
    /\ \E d \in ScattererSets :
         layers = [l \in LayerIds |->
                     IF l = "L1"
                     THEN [fields |-> {"FID", "Shape", "VEL"},
                           feats |-> [i \in DOMAIN d |-> Feature(d[i].x, d[i].y, 1)],
                           spatref |-> "SR1"]
                     ELSE SqueeSARLayer]
    /\ toc = "L1"
    /\ sar = [t \in ToolIds |-> None]
    /\ selection = [l \in LayerIds |-> {}]
    /\ stored = FALSE
    /\ mapLayers = 0
    /\ pc = "Idle"
    /\ tool = None
    /\ extent = NoExtent
    /\ loc = NoLocals
    /\ calls = << >>
    /\ escaped = None
    /\ outcome = "none"
    /\ prev = "none"

\* One call per run: every layer and every extent, on a fresh map document.
SelectNext ==
    \/ outcome = "none" /\ \E e \in DrawnExtents : onRectangle(AverageTool, e)
    \/ AverageVerify
    \/ AverageSelect

SelectSpec == SelectInit /\ [][SelectNext]_vars

(* C10: the selection step selects exactly the scatterers of the layer     *)
(* that lie in the closed rectangle (those on its edge included, those     *)
(* outside excluded), each once and coincident ones each for itself, and   *)
(* the count it reports is their number; the step ends the call exactly    *)
(* when there is none.                                                     *)
InRegion(f, e) ==
    /\ e.XMin <= f.x /\ f.x <= e.XMax
    /\ e.YMin <= f.y /\ f.y <= e.YMax

ScatterersIn(e, l) ==
    { fid \in DOMAIN layers[l].feats : InRegion(layers[l].feats[fid], e) }

SelectionIsRegion ==
    pc = "select" =>
        LET inside == ScatterersIn(extent, sar[tool])
        IN  /\ selection'[sar[tool]] = inside
            /\ CountReturned' = Cardinality(inside)
            /\ (pc' = "Idle") <=> (inside = {})
            /\ pc' # "Idle" => loc'.nfeat = Cardinality(inside)

\* C10: every selection step selects exactly the scatterers in the closed
\* rectangle and reports their number.
C10_SelectionIsRegion == [][SelectionIsRegion]_vars

\* Two coincident scatterers on the edge are both selected, a third outside is not.
C10_Witness ==
    /\ pc = "evaluate"
    /\ loc.nfeat = 2
    /\ Len(layers["L1"].feats) = 3
    /\ \E i, j \in selection["L1"] :
          /\ i # j
          /\ layers["L1"].feats[i] = layers["L1"].feats[j]
          /\ layers["L1"].feats[i].x = extent.XMax

-----------------------------------------------------------------------------
\* What a selection hands back: the selected ids, the exception class, the
\* count (or -1 when it raised) and the calls it made.
SelectResult(r) ==
    << r.sel, r.raised.class,
       IF r.raised = NoException THEN r.ret.nfeat ELSE NoCount, r.calls >>

SelectIdempotent ==
    pc = "select" =>
        LET l == sar[tool]
            first == selectSqueeSARDataOn(extent, l, selection[l])
            again == selectSqueeSARDataOn(extent, l, first.sel)
        IN  /\ selection'[l] = first.sel
            /\ SelectResult(again) = SelectResult(first)
            /\ \A before \in SUBSET DOMAIN layers[l].feats :
                  SelectResult(selectSqueeSARDataOn(extent, l, before))
                      = SelectResult(first)

\* C11: selecting with the same scatterers and the same region gives the
\* same identities and the same count whatever selection the layer had
\* before, a second selection right after the first included.
C11_SelectIdempotent == [][SelectIdempotent]_vars

\* A selection is about to run on a layer that still holds the selection an
\* earlier call left behind, which is not the set this region matches.
C11_Witness ==
    /\ pc = "select"
    /\ prev \in {"TooFew", "EstFail"}
    /\ selection[sar[tool]] # {}
    /\ selection[sar[tool]] # ScatterersIn(extent, sar[tool])

-----------------------------------------------------------------------------
\* The rows the average estimator read, and the count in the result box.
RowsRead ==
    calls[CHOOSE i \in DOMAIN calls :
            calls[i].call = "FeatureClassToNumPyArray"].val[1]

CountShown ==
    calls[CHOOSE i \in DOMAIN calls :
            IsBox(calls[i]) /\ calls[i].title = "Info"].val[1]

\* Between the selection and the end of the call.
Selected == pc \in {"check", "evaluate", "report", "raster", "clear"}

\* C12: the count is never negative and is the size of the selection: the
\* count the selection returned is the number of features selected for as
\* long as the call runs, the number of rows the estimator reads, and the
\* number shown in the result box.
C12_CountIsSelection ==
    /\ Counted => CountReturned >= 0
    /\ Selected =>
          /\ loc.nfeat = CountReturned
          /\ loc.nfeat = Cardinality(selection[sar[tool]])
          /\ loc.nfeat = Len(FeatureClassToNumPyArray(sar[tool]))
    /\ Has("FeatureClassToNumPyArray") => RowsRead = CountReturned
    /\ InfoShown => CountShown = RowsRead

\* The average of 2 of the 4 scatterers of the layer has been shown.
C12_Witness ==
    /\ pc = "clear" /\ tool = AverageTool
    /\ InfoShown /\ CountShown = 2 /\ RowsRead = 2
    /\ Len(layers[sar[tool]].feats) = 4

-----------------------------------------------------------------------------
\* What a call that has ended shows of itself: how it ended, the count of
\* the selection (-1 when none was made) and the average in the result box.
Observed ==
    [how |-> outcome,
     count |-> CountReturned,
     value |-> IF InfoShown
               THEN LET box == calls[CHOOSE i \in DOMAIN calls :
                                       IsBox(calls[i]) /\ calls[i].title = "Info"]
                    IN  [num |-> box.val[2], den |-> box.val[3]]
               ELSE NoAverage]

\* The same, worked out from the inputs of the call alone: the tool t, the
\* layer l selected in the table of contents, the drawn extent e and the
\* scatterers of that layer.
Expected(t, l, e) ==
    IF l = None
    THEN [how |-> "NoLayer", count |-> NoCount, value |-> NoAverage]
    ELSE LET ids == SortedIds(ScatterersIn(e, l))
             rows == [i \in DOMAIN ids |-> layers[l].feats[ids[i]]]
             n == Len(rows)
             stop(how) == [how |-> how, count |-> n, value |-> NoAverage]
         IN  IF n = 0 THEN stop("Empty")
             ELSE IF t = ResidualTool /\ n < MinScatterers THEN stop("TooFew")
             ELSE IF "VEL" \notin layers[l].fields THEN stop("EstFail")
             ELSE IF t = ResidualTool
             THEN stop(IF Collinear(rows) THEN "EstFail" ELSE "ok")
             ELSE [how |-> "ok", count |-> n,
                   value |-> [num |-> SeqSum([i \in DOMAIN rows |-> rows[i].VEL]),
                              den |-> n]]

OutcomeFromInputs ==
    (pc # "Idle" /\ pc' = "Idle") => Observed' = Expected(tool, toc, extent)

-----------------------------------------------------------------------------
\* NumPyArrayToRaster lays the second axis of the array out along x and the
\* first along y: the ground covered by the raster, as fractions.
RasterWidth(r) ==
    [num |-> r.array.cols * r.x_cell_size.num, den |-> r.x_cell_size.den]
RasterHeight(r) ==
    [num |-> r.array.rows * r.y_cell_size.num, den |-> r.y_cell_size.den]
FracIs(f, n) == f.den # 0 /\ f.num = n * f.den

\* C14: the raster made from a residual array of any shape starts at the
\* lower-left corner of the drawn extent and covers exactly that extent:
\* cols cells of the cell width make the width of the extent and rows cells
\* of the cell height make its height.
C14_RasterCoversExtent ==
    (tool = ResidualTool /\ pc = "clear") =>
        /\ loc.raster.origin = lowerLeft(extent)
        /\ FracIs(RasterWidth(loc.raster), width(extent))
        /\ FracIs(RasterHeight(loc.raster), height(extent))

-----------------------------------------------------------------------------
(* The average alone, over every layer of at most MaxScat scatterers with  *)
(* velocities in 0..MaxVel: scatterer i lies at (i-1, i-1), so that the    *)
(* extents select one, several, all or none of them.                       *)

Velocities == 0..MaxVel
VelocityLists == UNION { [1..n -> Velocities] : n \in 0..MaxScat }

AverageInit ==
    /\ \E v \in VelocityLists :
         layers = [l \in LayerIds |->
                     IF l = "L1"
                     THEN [fields |-> {"FID", "Shape", "VEL"},
                           feats |-> [i \in DOMAIN v |->
                                        Feature((i - 1) % (MaxCoord + 1),
                                                (i - 1) % (MaxCoord + 1), v[i])],
                           spatref |-> "SR1"]
                     ELSE SqueeSARLayer]
    /\ toc = "L1"
    /\ sar = [t \in ToolIds |-> None]
    /\ selection = [l \in LayerIds |-> {}]
    /\ stored = FALSE
    /\ mapLayers = 0
    /\ pc = "Idle"
    /\ tool = None
    /\ extent = NoExtent
    /\ loc = NoLocals
    /\ calls = << >>
    /\ escaped = None
    /\ outcome = "none"
    /\ prev = "none"

\* One call of the average tool per run, on a fresh map document.
AverageNext ==
    \/ outcome = "none" /\ \E e \in DrawnExtents : onRectangle(AverageTool, e)
    \/ AverageVerify
    \/ AverageSelect
    \/ AverageEvaluate
    \/ AverageReport
    \/ AverageClear

AverageSpec == AverageInit /\ [][AverageNext]_vars

\* The sum of the velocities of the features S of layer l.
RECURSIVE SumVel(_, _)
SumVel(S, l) ==
    IF S = {} THEN 0
    ELSE LET fid == CHOOSE f \in S : TRUE
         IN  layers[l].feats[fid].VEL + SumVel(S \ {fid}, l)

AverageIsMean ==
    (tool = AverageTool /\ pc \in {"report", "clear"}) =>
        LET l == sar[tool]
            inside == ScatterersIn(extent, l)
            vels == { layers[l].feats[fid].VEL : fid \in inside }
        IN  /\ loc.ave_vel.den = Cardinality(inside)
            /\ loc.ave_vel.num = SumVel(inside, l)
            /\ \A v \in vels : vels = {v} => FracIs(loc.ave_vel, v)
            /\ (Cardinality(inside) = 3 /\ vels = {1, 2, 3}) =>
                  FracIs(loc.ave_vel, 2)
            /\ pc = "clear" => Observed.value = loc.ave_vel

\* C15: the average is the sum of the velocities of the scatterers the
\* region of this call holds, and of no others, over their number: the
\* common velocity when they all have the same, and 2 for 1, 2 and 3.
C15_AverageIsMean == AverageIsMean

\* The average 3/2 of velocities 1 and 2 was shown, the third scatterer of
\* the layer, of velocity 3, lying outside the region.
C15_Witness ==
    /\ pc = "clear" /\ tool = AverageTool
    /\ Len(layers["L1"].feats) = 3
    /\ layers["L1"].feats[3].VEL = 3
    /\ selection["L1"] = {1, 2}
    /\ Observed.value = [num |-> 3, den |-> 2]

-----------------------------------------------------------------------------
(* Spatial references.  The extent handed to onRectangle is in the         *)
(* coordinates of the data frame; the features of a layer are in the       *)
(* coordinates of the layer.  The two references of the model differ by a  *)
(* false easting: a ground point has x greater by 1 in "SR2".              *)

SpatialReferences == {"SR1", "SR2"}
DataFrameSpatialReference == "SR1"
FalseEasting(sr) == IF sr = "SR2" THEN 1 ELSE 0

\* The point p of reference from, in the coordinates of reference to.
ProjectAs(p, from, to) ==
    Point(p.x - FalseEasting(from) + FalseEasting(to), p.y)

\* The selection alone on a layer L1 of either reference.
ProjectInit ==
    /\ \E d \in ScattererSets, sr \in SpatialReferences :
         layers = [l \in LayerIds |->
                     IF l = "L1"
                     THEN [fields |-> {"FID", "Shape", "VEL"},
                           feats |-> [i \in DOMAIN d |-> Feature(d[i].x, d[i].y, 1)],
                           spatref |-> sr]
                     ELSE SqueeSARLayer]
    /\ toc = "L1"
    /\ sar = [t \in ToolIds |-> None]
    /\ selection = [l \in LayerIds |-> {}]
    /\ stored = FALSE
    /\ mapLayers = 0
    /\ pc = "Idle"
    /\ tool = None
    /\ extent = NoExtent
    /\ loc = NoLocals
    /\ calls = << >>
    /\ escaped = None
    /\ outcome = "none"
    /\ prev = "none"

ProjectSpec == ProjectInit /\ [][SelectNext]_vars

RegionReconciled ==
    pc = "select" =>
        LET l == sar[tool]
            sr == layers[l].spatref
            poly == QueryPolygon(extent, l)
            drawn == ExtentRing(extent)
        IN  /\ poly.spatref = sr
            /\ \A i \in DOMAIN drawn :
                  poly.ring[i] = ProjectAs(drawn[i], DataFrameSpatialReference, sr)
            /\ selection'[l] =
                  { fid \in DOMAIN layers[l].feats :
                      InRegion(ProjectAs(layers[l].feats[fid], sr,
                                         DataFrameSpatialReference), extent) }

\* C16: the polygon of the query is the drawn rectangle in the reference of
\* the layer: its corners are the corners of the extent taken from the
\* reference of the data frame into that of the layer, so that the
\* scatterers selected are those on the ground the rectangle was drawn on.
C16_RegionReconciled == [][RegionReconciled]_vars

-----------------------------------------------------------------------------
(* Both tools on three scatterers at (0,0), (1,0) and (0,1) with any       *)
(* velocities in 0..MaxVel, alone on layer L1 or with a fourth scatterer   *)
(* of velocity 0 at (1,1), which takes the four off a common plane unless  *)
(* the velocities happen to fit.                                           *)

Triangle == << Point(0, 0), Point(1, 0), Point(0, 1) >>
UnitSquare == [XMin |-> 0, YMin |-> 0, XMax |-> 1, YMax |-> 1]

PlaneInit ==
    /\ \E v \in [1..3 -> Velocities], fourth \in BOOLEAN :
         layers = [l \in LayerIds |->
                     IF l = "L1"
                     THEN [fields |-> {"FID", "Shape", "VEL"},
                           feats |-> [i \in 1..3 |->
                                        Feature(Triangle[i].x, Triangle[i].y, v[i])]
                                     \o (IF fourth THEN << Feature(1, 1, 0) >>
                                                   ELSE << >>),
                           spatref |-> "SR1"]
                     ELSE SqueeSARLayer]
    /\ toc = "L1"
    /\ sar = [t \in ToolIds |-> None]
    /\ selection = [l \in LayerIds |-> {}]
    /\ stored = FALSE
    /\ mapLayers = 0
    /\ pc = "Idle"
    /\ tool = None
    /\ extent = NoExtent
    /\ loc = NoLocals
    /\ calls = << >>
    /\ escaped = None
    /\ outcome = "none"
    /\ prev = "none"

\* One call of either tool per run, on a fresh map document.
PlaneNext ==
    \/ outcome = "none" /\ \E t \in ToolIds, e \in DrawnExtents : onRectangle(t, e)
    \/ AverageVerify
    \/ AverageSelect
    \/ AverageEvaluate
    \/ AverageReport
    \/ AverageClear
    \/ ResidualVerify
    \/ ResidualSelect
    \/ ResidualCheck
    \/ ResidualEvaluate
    \/ ResidualRaster
    \/ ResidualClear

PlaneSpec == PlaneInit /\ [][PlaneNext]_vars

\* Every cell of the grid holds the value 0.
ZeroGrid(g) ==
    /\ Len(g.cells) = g.rows * g.cols
    /\ \A k \in DOMAIN g.cells : FracIs(g.cells[k], 0)

\* The residual array is at hand, the average is at hand.
ResidualAtHand == tool = ResidualTool /\ pc \in {"raster", "clear"}
AverageAtHand == tool = AverageTool /\ pc \in {"report", "clear"}

\* The scenario: the unit square drawn over three scatterers of velocity 1.
Scenario ==
    /\ extent = UnitSquare
    /\ Len(layers["L1"].feats) = 3
    /\ \A i \in 1..3 : layers["L1"].feats[i].VEL = 1

\* C17: the residual grid over exactly 3 scatterers that are not on a line
\* is zero in every cell, whatever its shape; in the scenario of the unit
\* square over (0,0), (1,0) and (0,1) of velocity 1 the average is 1 and
\* the residual grid of shape (2,2) is zero in its 4 cells.
C17_PlanarResidualIsZero ==
    /\ (ResidualAtHand /\ loc.nfeat = 3) => ZeroGrid(loc.res)
    /\ (ResidualAtHand /\ pc = "clear") => loc.raster.array = loc.res
    /\ (Scenario /\ AverageAtHand) => FracIs(loc.ave_vel, 1)
    /\ (Scenario /\ ResidualAtHand /\ loc.res.rows = 2 /\ loc.res.cols = 2) =>
          /\ Len(loc.res.cells) = 4
          /\ ZeroGrid(loc.res)

\* The scenario has run to the raster of a (2,2) grid of zeros.
C17_Witness ==
    /\ Scenario /\ tool = ResidualTool /\ pc = "clear"
    /\ loc.nfeat = 3
    /\ loc.raster.array.rows = 2 /\ loc.raster.array.cols = 2
    /\ ZeroGrid(loc.raster.array)

\* Four scatterers off a common plane leave residuals.
NonPlanarLeavesResidual ==
    ResidualAtHand /\ loc.nfeat = 4 /\ ~ZeroGrid(loc.res)

-----------------------------------------------------------------------------
(* The polygon of the query, over every extent the rectangle tool can hand *)
(* over, those of no width or no height (a click without a drag) included. *)

ClosedExtents == { e \in Extents : e.XMin <= e.XMax /\ e.YMin <= e.YMax }

RingNext ==
    \/ \E l \in LayerIds \cup {None} : SelectTOC(l)
    \/ \E e \in ClosedExtents : onRectangle(AverageTool, e)
    \/ AverageVerify
    \/ AverageSelect

RingSpec == Init /\ [][RingNext]_vars

\* Twice the signed area of the triangle a, b, c.
Orient(a, b, c) == (b.x - a.x) * (c.y - a.y) - (b.y - a.y) * (c.x - a.x)

\* c lies on the segment from a to b.
OnSegment(a, b, c) ==
    /\ Orient(a, b, c) = 0
    /\ MinOf({a.x, b.x}) <= c.x /\ c.x <= MaxOf({a.x, b.x})
    /\ MinOf({a.y, b.y}) <= c.y /\ c.y <= MaxOf({a.y, b.y})

\* The segments a b and c d have a point in common.
Meet(a, b, c, d) ==
    \/ /\ Orient(a, b, c) * Orient(a, b, d) < 0
       /\ Orient(c, d, a) * Orient(c, d, b) < 0
    \/ OnSegment(a, b, c) \/ OnSegment(a, b, d)
    \/ OnSegment(c, d, a) \/ OnSegment(c, d, b)

\* No two sides of the closed ring meet but neighbours at their common end.
Simple(ring) ==
    LET n == Len(ring) - 1
    IN  /\ \A i \in 1..n : ring[i] # ring[i + 1]
        /\ \A i, j \in 1..n :
              (i + 1 < j /\ ~(i = 1 /\ j = n)) =>
                  ~Meet(ring[i], ring[i + 1], ring[j], ring[j + 1])

\* The selection has a polygon: the call is past the layer check.
HasPolygon == pc \notin {"Idle", "verify"}

\* C18: the polygon of the query is the ring lower-left, lower-right,
\* upper-right, upper-left, lower-left of the extent: 5 points, the last
\* equal to the first; when the extent has a width and a height the 4
\* corners are distinct and the ring is simple.
C18_FivePointRing ==
    HasPolygon =>
        LET ring == QueryPolygon(extent, sar[tool]).ring
        IN  /\ Len(ring) = 5
            /\ ring[1] = Point(extent.XMin, extent.YMin)
            /\ ring[2] = Point(extent.XMax, extent.YMin)
            /\ ring[3] = Point(extent.XMax, extent.YMax)
            /\ ring[4] = Point(extent.XMin, extent.YMax)
            /\ ring[5] = ring[1]
            /\ (width(extent) > 0 /\ height(extent) > 0) =>
                  /\ Cardinality({ ring[i] : i \in DOMAIN ring }) = 4
                  /\ Simple(ring)

\* A selection was made with the polygon of an extent wider than high.
C18_Witness ==
    /\ pc = "evaluate" /\ Has("SelectLayerByLocation")
    /\ width(extent) = 2 /\ height(extent) = 1
    /\ Simple(QueryPolygon(extent, sar[tool]).ring)

\* The ring of an extent of no width is closed but not simple.
DegenerateRing ==
    /\ HasPolygon /\ width(extent) = 0
    /\ ~Simple(QueryPolygon(extent, sar[tool]).ring)

-----------------------------------------------------------------------------
DeactivateEffect ==
    /\ \A t \in ToolIds :
          deactivate(t) =>
              IF sar[t] = None
              THEN selection' = selection
              ELSE selection' = [selection EXCEPT ![sar[t]] = {}]
    /\ (pc = "verify" /\ toc = None) => sar' = sar
    /\ \A t \in ToolIds :
          sar'[t] # sar[t] =>
              pc = "verify" /\ tool = t /\ toc # None /\ sar'[t] = toc
    /\ (pc = "Idle" /\ pc' = "Idle") =>
          \A l \in LayerIds :
              selection'[l] # selection[l] =>
                  selection'[l] = {} /\ \E t \in ToolIds : sar[t] = l

\* C19: a tool remembers the layer of its last layer check that passed, a
\* failed check leaving it as it was; deactivate of a tool empties the
\* selection of the layer the tool remembers and no other, and changes
\* nothing when the tool remembers none; between calls no selection
\* changes but by such a deactivate.
C19_DeactivateEffect == [][DeactivateEffect]_vars

\* The residual tool stopped on too few scatterers, which stayed selected,
\* and the selection of its layer is empty since.
C19_Witness ==
    /\ Returned /\ outcome = "TooFew"
    /\ sar[ResidualTool] # None
    /\ sar[AverageTool] = None
    /\ selection[sar[ResidualTool]] = {}

====
